---- MODULE Spec2Model ----
(***************************************************************************)
(* Model of the utilities-quotes rate service: the weather client          *)
(* (fetchWeather), the rate calculator (calculateRates) and the two rate   *)
(* endpoints GET /api/rates/:city and GET /api/rates.                      *)
(*                                                                         *)
(* Decimal amounts (rates, adjustments) are fixed-point integers counting  *)
(* units of 10^-Digits.  Texts are sequences of one-character strings.     *)
(* JavaScript values are records with a type tag (see the constructors).   *)
(***************************************************************************)
EXTENDS Integers, Sequences, FiniteSets

VARIABLES
    weather,    \* SpecCalc: the reading handed to calculateRates
    result,     \* SpecCalc: what calculateRates returned (or threw)
    calcPc,     \* SpecCalc: "input" before the call, "done" after it
    route,      \* the request being served: "none", "city" or "all"
    pc,         \* position of its handler: "idle", "await", "done"
    fetches,    \* the fetchWeather calls of the request, in call order
    idx,        \* GET /api/rates: position in the city list (for ... of)
    quotes,     \* GET /api/rates: the quotes array
    responses,  \* the responses sent for the request, in order
    crashed,    \* the process died of an unhandled rejection
    survived    \* an earlier request of this process met an unusable reading

vars == <<weather, result, calcPc, route, pc, fetches, idx, quotes, responses,
          crashed, survived>>

calcVars == <<weather, result, calcPc>>
httpVars == <<route, pc, fetches, idx, quotes, responses, crashed, survived>>

----------------------------------------------------------------------------
(* Bounds of the model *)

Digits == 5      \* decimal digits kept by the fixed-point amounts
MinTemp == 29    \* lowest temperature of a checked reading
MaxTemp == 88    \* highest temperature of a checked reading
MinHumidity == 28  \* lowest humidity of a checked reading
MaxHumidity == 30  \* highest humidity of a checked reading
MaxWords == 2    \* words concatenated into a conditions text
ChunkSize == 32  \* most characters one 'data' event delivers

----------------------------------------------------------------------------
(* Decimal arithmetic *)

RECURSIVE Pow10(_)
Pow10(n) == IF n = 0 THEN 1 ELSE 10 * Pow10(n - 1)

One == Pow10(Digits)

\* The decimal literal m * 10^-d
Dec(m, d) == m * Pow10(Digits - d)

\* Math.round of a fixed-point amount: the integer floor(x + 0.5)
MathRound(x) == (2 * x + One) \div (2 * One)

---------------------------------------------------------------------------------------------------------------------------------------------------
(* Texts *)

UpperCase == <<"A","B","C","D","E","F","G","H","I","J","K","L","M",
               "N","O","P","Q","R","S","T","U","V","W","X","Y","Z">>
LowerCase == <<"a","b","c","d","e","f","g","h","i","j","k","l","m",
               "n","o","p","q","r","s","t","u","v","w","x","y","z">>

toLowerChar(c) ==
    IF \E k \in 1..Len(UpperCase) : UpperCase[k] = c
    THEN LowerCase[CHOOSE k \in 1..Len(UpperCase) : UpperCase[k] = c]
    ELSE c

\* String.prototype.toLowerCase
RECURSIVE toLowerCase(_)
toLowerCase(s) ==
    IF Len(s) = 0 THEN ""
    ELSE toLowerChar(SubSeq(s, 1, 1)) \o toLowerCase(SubSeq(s, 2, Len(s)))

\* String.prototype.includes
includes(s, sub) ==
    \E k \in 0..(Len(s) - Len(sub)) : SubSeq(s, k + 1, k + Len(sub)) = sub

----------------------------------------------------------------------------
(* JavaScript values: a type tag t and the payload of that type.  The      *)
(* fields of an object map property names to values.                       *)

NoFields == <<>>

Undefined == [t |-> "undefined", b |-> FALSE, n |-> 0, s |-> "", f |-> NoFields]
Null == [t |-> "null", b |-> FALSE, n |-> 0, s |-> "", f |-> NoFields]
Bool(x) == [t |-> "boolean", b |-> x, n |-> 0, s |-> "", f |-> NoFields]
Num(x) == [t |-> "number", b |-> FALSE, n |-> x, s |-> "", f |-> NoFields]
Str(x) == [t |-> "string", b |-> FALSE, n |-> 0, s |-> x, f |-> NoFields]
Obj(x) == [t |-> "object", b |-> FALSE, n |-> 0, s |-> "", f |-> x]

\* v.key for a value that is neither null nor undefined
Prop(v, key) ==
    IF v.t = "object" /\ key \in DOMAIN v.f THEN v.f[key] ELSE Undefined

\* ToBoolean
Truthy(v) ==
    CASE v.t = "undefined" -> FALSE
      [] v.t = "null" -> FALSE
      [] v.t = "boolean" -> v.b
      [] v.t = "number" -> v.n # 0
      [] v.t = "string" -> v.s # ""
      [] OTHER -> TRUE

Digit == <<"0","1","2","3","4","5","6","7","8","9">>

RECURSIVE NatToString(_)
NatToString(n) ==
    IF n < 10 THEN Digit[n + 1] ELSE NatToString(n \div 10) \o Digit[(n % 10) + 1]

\* StringOf, as new Error(x) applies it to its argument
StringOf(v) ==
    CASE v.t = "string" -> v.s
      [] v.t = "number" -> IF v.n < 0 THEN "-" \o NatToString(-v.n) ELSE NatToString(v.n)
      [] v.t = "boolean" -> IF v.b THEN "true" ELSE "false"
      [] v.t = "null" -> "null"
      [] v.t = "undefined" -> "undefined"
      [] OTHER -> "[object Object]"

\* ToNumber of a JSON value: nan marks NaN.  A text converts only when it is
\* empty; the texts of the model hold no numerals.
ToNumber(v) ==
    CASE v.t = "number" -> [nan |-> FALSE, n |-> v.n]
      [] v.t = "null" -> [nan |-> FALSE, n |-> 0]
      [] v.t = "boolean" -> [nan |-> FALSE, n |-> IF v.b THEN 1 ELSE 0]
      [] v.t = "string" /\ v.s = "" -> [nan |-> FALSE, n |-> 0]
      [] OTHER -> [nan |-> TRUE, n |-> 0]

\* v > k, v < k, v >= k, v <= k for a number literal k: false on NaN
Gt(v, k) == ~ToNumber(v).nan /\ ToNumber(v).n > k
Lt(v, k) == ~ToNumber(v).nan /\ ToNumber(v).n < k
Ge(v, k) == ~ToNumber(v).nan /\ ToNumber(v).n >= k
Le(v, k) == ~ToNumber(v).nan /\ ToNumber(v).n <= k

\* The outcome of a call: a returned value, or a thrown error
Return(v) == [threw |-> FALSE, value |-> v, message |-> ""]
Throw(msg) == [threw |-> TRUE, value |-> Undefined, message |-> msg]

----------------------------------------------------------------------------
(* Rate calculator *)

baseRates ==
    [electricity |-> [rate |-> Dec(12, 2), unit |-> "kWh"],
     naturalGas  |-> [rate |-> Dec(105, 2), unit |-> "therm"],
     water       |-> [rate |-> Dec(4, 3), unit |-> "gallon"],
     solar       |-> [rate |-> Dec(8, 2), unit |-> "kWh"]]

\* Math.round((rate + adjust) * factor) / factor
AdjustedRate(rate, adjust, factor) ==
    (MathRound((rate + adjust) * factor) * One) \div factor

\* ElecRule with the cooling band starting at 85 instead of above it
ElecRule_From85(temp) ==
    IF Ge(temp, 85)
    THEN [adjust |-> Dec(4, 2), reason |-> "High cooling demand due to heat"]
    ELSE IF Lt(temp, 40)
    THEN [adjust |-> Dec(3, 2), reason |-> "Increased heating demand"]
    ELSE IF Ge(temp, 65) /\ Le(temp, 75)
    THEN [adjust |-> -Dec(2, 2), reason |-> "Low HVAC demand - mild weather"]
    ELSE [adjust |-> 0, reason |-> "Standard rate"]

ElecRule(temp) ==
    IF Gt(temp, 85)
    THEN [adjust |-> Dec(4, 2), reason |-> "High cooling demand due to heat"]
    ELSE IF Lt(temp, 40)
    THEN [adjust |-> Dec(3, 2), reason |-> "Increased heating demand"]
    ELSE IF Ge(temp, 65) /\ Le(temp, 75)
    THEN [adjust |-> -Dec(2, 2), reason |-> "Low HVAC demand - mild weather"]
    ELSE [adjust |-> 0, reason |-> "Standard rate"]

ElectricityQuote(temp) ==
    LET rule == ElecRule(temp)
    IN  [utility |-> "Electricity",
         baseRate |-> baseRates.electricity.rate,
         unit |-> baseRates.electricity.unit,
         weatherAdjustment |-> rule.adjust,
         adjustedRate |-> AdjustedRate(baseRates.electricity.rate, rule.adjust, 1000),
         reason |-> rule.reason]

GasRule(temp) ==
    IF Lt(temp, 32)
    THEN [adjust |-> Dec(45, 2), reason |-> "Peak heating season - extreme cold"]
    ELSE IF Lt(temp, 50)
    THEN [adjust |-> Dec(25, 2), reason |-> "Heating demand increased"]
    ELSE IF Gt(temp, 80)
    THEN [adjust |-> -Dec(15, 2), reason |-> "Reduced heating demand"]
    ELSE [adjust |-> 0, reason |-> "Standard rate"]

\* GasQuote rounding to one decimal instead of two
GasQuote_OneDecimal(temp) ==
    LET rule == GasRule(temp)
    IN  [utility |-> "Natural Gas",
         baseRate |-> baseRates.naturalGas.rate,
         unit |-> baseRates.naturalGas.unit,
         weatherAdjustment |-> rule.adjust,
         adjustedRate |-> AdjustedRate(baseRates.naturalGas.rate, rule.adjust, 10),
         reason |-> rule.reason]

GasQuote(temp) ==
    LET rule == GasRule(temp)
    IN  [utility |-> "Natural Gas",
         baseRate |-> baseRates.naturalGas.rate,
         unit |-> baseRates.naturalGas.unit,
         weatherAdjustment |-> rule.adjust,
         adjustedRate |-> AdjustedRate(baseRates.naturalGas.rate, rule.adjust, 100),
         reason |-> rule.reason]

\* WaterRule with the rain rule checked before the drought rule
WaterRule_RainFirst(temp, conditions, humidity) ==
    IF includes(conditions, "rain")
    THEN [adjust |-> -Dec(1, 3), reason |-> "Reduced irrigation demand"]
    ELSE IF Lt(humidity, 30) /\ Gt(temp, 80)
    THEN [adjust |-> Dec(2, 3), reason |-> "Drought surcharge - conservation pricing"]
    ELSE [adjust |-> 0, reason |-> "Standard rate"]

WaterRule(temp, conditions, humidity) ==
    IF Lt(humidity, 30) /\ Gt(temp, 80)
    THEN [adjust |-> Dec(2, 3), reason |-> "Drought surcharge - conservation pricing"]
    ELSE IF includes(conditions, "rain")
    THEN [adjust |-> -Dec(1, 3), reason |-> "Reduced irrigation demand"]
    ELSE [adjust |-> 0, reason |-> "Standard rate"]

WaterQuote(temp, conditions, humidity) ==
    LET rule == WaterRule(temp, conditions, humidity)
    IN  [utility |-> "Water",
         baseRate |-> baseRates.water.rate,
         unit |-> baseRates.water.unit,
         weatherAdjustment |-> rule.adjust,
         adjustedRate |-> AdjustedRate(baseRates.water.rate, rule.adjust, 10000),
         reason |-> rule.reason]

\* SolarRule with the rain/storm rule checked before the cloud/overcast rule
SolarRule_RainFirst(conditions) ==
    IF includes(conditions, "sunny") \/ includes(conditions, "clear")
    THEN [adjust |-> Dec(3, 2), reason |-> "Peak solar production - premium buyback"]
    ELSE IF includes(conditions, "rain") \/ includes(conditions, "storm")
    THEN [adjust |-> -Dec(4, 2), reason |-> "Minimal solar production"]
    ELSE IF includes(conditions, "cloud") \/ includes(conditions, "overcast")
    THEN [adjust |-> -Dec(2, 2), reason |-> "Reduced solar output"]
    ELSE [adjust |-> 0, reason |-> "Standard buyback rate"]

\* SolarRule giving the no-match reason of the other utilities
SolarRule_StandardRate(conditions) ==
    IF includes(conditions, "sunny") \/ includes(conditions, "clear")
    THEN [adjust |-> Dec(3, 2), reason |-> "Peak solar production - premium buyback"]
    ELSE IF includes(conditions, "cloud") \/ includes(conditions, "overcast")
    THEN [adjust |-> -Dec(2, 2), reason |-> "Reduced solar output"]
    ELSE IF includes(conditions, "rain") \/ includes(conditions, "storm")
    THEN [adjust |-> -Dec(4, 2), reason |-> "Minimal solar production"]
    ELSE [adjust |-> 0, reason |-> "Standard rate"]

SolarRule(conditions) ==
    IF includes(conditions, "sunny") \/ includes(conditions, "clear")
    THEN [adjust |-> Dec(3, 2), reason |-> "Peak solar production - premium buyback"]
    ELSE IF includes(conditions, "cloud") \/ includes(conditions, "overcast")
    THEN [adjust |-> -Dec(2, 2), reason |-> "Reduced solar output"]
    ELSE IF includes(conditions, "rain") \/ includes(conditions, "storm")
    THEN [adjust |-> -Dec(4, 2), reason |-> "Minimal solar production"]
    ELSE [adjust |-> 0, reason |-> "Standard buyback rate"]

SolarQuote(conditions) ==
    LET rule == SolarRule(conditions)
    IN  [utility |-> "Solar Buyback",
         baseRate |-> baseRates.solar.rate,
         unit |-> baseRates.solar.unit,
         weatherAdjustment |-> rule.adjust,
         adjustedRate |-> AdjustedRate(baseRates.solar.rate, rule.adjust, 1000),
         reason |-> rule.reason]

\* weather.conditions.toLowerCase(): a TypeError unless conditions is a string
LowerConditions(w) ==
    IF w.t \in {"undefined", "null"}
    THEN Throw("Cannot read properties of " \o w.t)
    ELSE LET c == Prop(w, "conditions")
         IN  IF c.t = "undefined"
             THEN Throw("Cannot read properties of undefined (reading 'toLowerCase')")
             ELSE IF c.t = "null"
             THEN Throw("Cannot read properties of null (reading 'toLowerCase')")
             ELSE IF c.t # "string"
             THEN Throw("weather.conditions.toLowerCase is not a function")
             ELSE Return(Str(toLowerCase(c.s)))

calculateRates(w) ==
    LET lowered == LowerConditions(w)
        temp == Prop(w, "temperature")
        conditions == lowered.value.s
        humidity == Prop(w, "humidity")
    IN  IF lowered.threw THEN lowered
        ELSE Return(<<ElectricityQuote(temp), GasQuote(temp),
                      WaterQuote(temp, conditions, humidity),
                      SolarQuote(conditions)>>)

----------------------------------------------------------------------------
(* JSON.parse, over the JSON the model's upstream emits: objects, strings   *)
(* without escapes, integers and the three literals, spaces between tokens. *)

CharAt(s, p) == IF p >= 1 /\ p <= Len(s) THEN SubSeq(s, p, p) ELSE ""

LiteralAt(s, p, lit) ==
    p + Len(lit) - 1 <= Len(s) /\ SubSeq(s, p, p + Len(lit) - 1) = lit

IsDigit(c) == \E k \in 1..Len(Digit) : Digit[k] = c

DigitValue(c) == (CHOOSE k \in 1..Len(Digit) : Digit[k] = c) - 1

RECURSIVE SkipSpaces(_, _)
SkipSpaces(s, p) == IF CharAt(s, p) = " " THEN SkipSpaces(s, p + 1) ELSE p

\* Position of the first '"' at or after p, or 0
RECURSIVE QuoteAt(_, _)
QuoteAt(s, p) ==
    IF p > Len(s) THEN 0
    ELSE IF CharAt(s, p) = "\"" THEN p
    ELSE QuoteAt(s, p + 1)

\* First position at or after p that holds no digit
RECURSIVE DigitsEnd(_, _)
DigitsEnd(s, p) == IF IsDigit(CharAt(s, p)) THEN DigitsEnd(s, p + 1) ELSE p

RECURSIVE DigitsValue(_)
DigitsValue(s) ==
    IF Len(s) = 0 THEN 0
    ELSE 10 * DigitsValue(SubSeq(s, 1, Len(s) - 1)) + DigitValue(SubSeq(s, Len(s), Len(s)))

Parsed(v, next) == [ok |-> TRUE, value |-> v, next |-> next]
NoParse == [ok |-> FALSE, value |-> Undefined, next |-> 0]

ParseString(s, p) ==
    LET q == QuoteAt(s, p + 1)
    IN  IF CharAt(s, p) = "\"" /\ q # 0
        THEN Parsed(Str(SubSeq(s, p + 1, q - 1)), q + 1)
        ELSE NoParse

ParseNumber(s, p) ==
    LET q == IF CharAt(s, p) = "-" THEN p + 1 ELSE p
        e == DigitsEnd(s, q)
    IN  IF e = q THEN NoParse
        ELSE IF q > p THEN Parsed(Num(-DigitsValue(SubSeq(s, q, e - 1))), e)
        ELSE Parsed(Num(DigitsValue(SubSeq(s, q, e - 1))), e)

WithField(f, key, v) ==
    [k \in (DOMAIN f) \cup {key} |-> IF k = key THEN v ELSE f[k]]

RECURSIVE ParseValue(_, _), ParseMembers(_, _, _)
ParseValue(s, p0) ==
    LET p == SkipSpaces(s, p0)
        c == CharAt(s, p)
    IN  CASE c = "{" ->
               LET q == SkipSpaces(s, p + 1)
               IN  IF CharAt(s, q) = "}"
                   THEN Parsed(Obj(NoFields), q + 1)
                   ELSE ParseMembers(s, q, NoFields)
          [] c = "\"" -> ParseString(s, p)
          [] c = "-" \/ IsDigit(c) -> ParseNumber(s, p)
          [] LiteralAt(s, p, "null") -> Parsed(Null, p + 4)
          [] LiteralAt(s, p, "true") -> Parsed(Bool(TRUE), p + 4)
          [] LiteralAt(s, p, "false") -> Parsed(Bool(FALSE), p + 5)
          [] OTHER -> NoParse

ParseMembers(s, p0, acc) ==
    LET key == ParseString(s, SkipSpaces(s, p0))
        colon == SkipSpaces(s, key.next)
        val == ParseValue(s, colon + 1)
        sep == SkipSpaces(s, val.next)
    IN  IF ~key.ok \/ CharAt(s, colon) # ":" THEN NoParse
        ELSE IF ~val.ok THEN NoParse
        ELSE IF CharAt(s, sep) = "}"
        THEN Parsed(Obj(WithField(acc, key.value.s, val.value)), sep + 1)
        ELSE IF CharAt(s, sep) = ","
        THEN ParseMembers(s, sep + 1, WithField(acc, key.value.s, val.value))
        ELSE NoParse

JSONparse(s) ==
    LET r == ParseValue(s, 1)
    IN  IF r.ok /\ SkipSpaces(s, r.next) = Len(s) + 1
        THEN Return(r.value)
        ELSE Throw("Unexpected token in JSON")

----------------------------------------------------------------------------
(* Weather client *)

Pending == [state |-> "pending", value |-> Undefined, message |-> ""]

\* The resolve and reject functions of a promise: the first call settles it
resolve(p, v) ==
    IF p.state = "pending" THEN [state |-> "resolved", value |-> v, message |-> ""] ELSE p
reject(p, msg) ==
    IF p.state = "pending"
    THEN [state |-> "rejected", value |-> Undefined, message |-> msg]
    ELSE p

\* await p, for a settled p
Await(p) == IF p.state = "resolved" THEN Return(p.value) ELSE Throw(p.message)

\* The call fetchWeather(city): one http.get, its callbacks yet to run.  sent
\* lists the requests issued; body records what the weather service answered.
fetchWeather(city) ==
    [city |-> city,
     sent |-> <<"/api/weather/" \o city>>,
     phase |-> "requested",
     body |-> "",
     wire |-> "",
     data |-> "",
     promise |-> Pending]

\* EndCallback testing for the presence of an error property ("error" in
\* parsed) instead of its truthiness
EndCallback_ErrorPresent(p, data) ==
    LET parsed == JSONparse(data)
    IN  IF parsed.threw
        THEN reject(p, "Invalid response from weather service")
        ELSE IF parsed.value.t \in {"null", "undefined"}
        THEN reject(p, "Invalid response from weather service")
        ELSE IF parsed.value.t = "object" /\ "error" \in DOMAIN parsed.value.f
        THEN reject(p, StringOf(Prop(parsed.value, "error")))
        ELSE resolve(p, parsed.value)

\* The 'end' callback: parse the collected data and settle the promise
EndCallback(p, data) ==
    LET parsed == JSONparse(data)
    IN  IF parsed.threw
        THEN reject(p, "Invalid response from weather service")
        ELSE IF parsed.value.t \in {"null", "undefined"}
        THEN reject(p, "Invalid response from weather service")
        ELSE IF Truthy(Prop(parsed.value, "error"))
        THEN reject(p, StringOf(Prop(parsed.value, "error")))
        ELSE resolve(p, parsed.value)

----------------------------------------------------------------------------
(* The weather service and the network, as the client sees them *)

ReadingLondon ==
    "{\"city\":\"London\",\"temperature\":70,\"conditions\":\"Cloudy, light rain\",\"humidity\":60}"
ReadingTokyo ==
    "{\"error\":null,\"city\":\"Tokyo\",\"temperature\":90,\"conditions\":\"Sunny\",\"humidity\":20}"

Bodies ==
    {ReadingLondon, ReadingTokyo, "{\"error\":\"not found\"}", "{}", "42", "null",
     "{\"city\":\"Par"}

TransportErrors == {"connect ECONNREFUSED"}

CityParams == {"london", "atlantis"}

Min(a, b) == IF a < b THEN a ELSE b

----------------------------------------------------------------------------
(* Endpoints *)

cities == <<"new-york", "london", "tokyo", "sydney", "paris">>

\* What a handler run leaves behind: the responses it sent, and whether an
\* error escaped it (an unhandled rejection, which ends the process)
Sent(status, body) == [responses |-> <<[status |-> status, body |-> body]>>, crashed |-> FALSE]

\* CityHandler answering a failure with status 500
CityHandler_Status500(p) ==
    LET w == Await(p)
        rates == calculateRates(w.value)
        caught(msg) == Sent(500, [error |-> "Could not generate rate quote", message |-> msg])
    IN  IF w.threw THEN caught(w.message)
        ELSE IF rates.threw THEN caught(rates.message)
        ELSE Sent(200, [city |-> Prop(w.value, "city"),
                        weather |-> [temperature |-> Prop(w.value, "temperature"),
                                     conditions |-> Prop(w.value, "conditions"),
                                     humidity |-> Prop(w.value, "humidity")],
                        rates |-> rates.value,
                        validFor |-> "1 hour"])

\* CityHandler with the try block closed before calculateRates is called: an
\* error it throws rejects the handler's promise, unhandled
CityHandler_CalcOutsideTry(p) ==
    LET w == Await(p)
        rates == calculateRates(w.value)
        caught(msg) == Sent(404, [error |-> "Could not generate rate quote", message |-> msg])
    IN  IF w.threw THEN caught(w.message)
        ELSE IF rates.threw THEN [responses |-> <<>>, crashed |-> TRUE]
        ELSE Sent(200, [city |-> Prop(w.value, "city"),
                        weather |-> [temperature |-> Prop(w.value, "temperature"),
                                     conditions |-> Prop(w.value, "conditions"),
                                     humidity |-> Prop(w.value, "humidity")],
                        rates |-> rates.value,
                        validFor |-> "1 hour"])

\* GET /api/rates/:city from the point where the awaited promise p has settled.
\* Every rejection reason and thrown value is an Error, so the catch block
\* reports error.message.  generatedAt (the clock) is left out of the body.
CityHandler(p) ==
    LET w == Await(p)
        rates == calculateRates(w.value)
        caught(msg) == Sent(404, [error |-> "Could not generate rate quote", message |-> msg])
    IN  IF w.threw THEN caught(w.message)
        ELSE IF rates.threw THEN caught(rates.message)
        ELSE Sent(200, [city |-> Prop(w.value, "city"),
                        weather |-> [temperature |-> Prop(w.value, "temperature"),
                                     conditions |-> Prop(w.value, "conditions"),
                                     humidity |-> Prop(w.value, "humidity")],
                        rates |-> rates.value,
                        validFor |-> "1 hour"])

\* AllIteration recording a failed city as an entry without rates
AllIteration_RecordFailure(qs, p) ==
    LET w == Await(p)
        rates == calculateRates(w.value)
        failure == [city |-> Null, weather |-> Null, rates |-> <<>>]
    IN  IF w.threw THEN Append(qs, failure)
        ELSE IF rates.threw THEN Append(qs, failure)
        ELSE Append(qs, [city |-> Prop(w.value, "city"),
                         weather |-> [temperature |-> Prop(w.value, "temperature"),
                                      conditions |-> Prop(w.value, "conditions")],
                         rates |-> rates.value])

\* One pass of the loop body of GET /api/rates once the awaited promise p
\* has settled: the quotes array after it
AllIteration(qs, p) ==
    LET w == Await(p)
        rates == calculateRates(w.value)
    IN  IF w.threw THEN qs
        ELSE IF rates.threw THEN qs
        ELSE Append(qs, [city |-> Prop(w.value, "city"),
                         weather |-> [temperature |-> Prop(w.value, "temperature"),
                                      conditions |-> Prop(w.value, "conditions")],
                         rates |-> rates.value])

\* LoopNext staying on a city whose pass failed (a retry)
LoopNext_Retry(i, failed) == IF failed THEN i ELSE i + 1

\* for (const city of cities): the position after a pass, failed or not
LoopNext(i, failed) == i + 1

\* A fetch resolved with a value calculateRates cannot use
Unusable(p) == p.state = "resolved" /\ LowerConditions(p.value).threw

----------------------------------------------------------------------------
(* Service: one request in service at a time (handlers share no mutable    *)
(* state); a new request may arrive once the previous one is answered.     *)

InitCalcIdle ==
    /\ weather = Undefined
    /\ result = Return(Undefined)
    /\ calcPc = "idle"

InitHttp ==
    /\ route = "none"
    /\ pc = "idle"
    /\ fetches = <<>>
    /\ idx = 0
    /\ quotes = <<>>
    /\ responses = <<>>
    /\ crashed = FALSE
    /\ survived = FALSE

Init == InitCalcIdle /\ InitHttp

RequestCity(city) ==
    /\ pc \in {"idle", "done"}
    /\ ~crashed
    /\ route' = "city"
    /\ pc' = "await"
    /\ fetches' = <<fetchWeather(city)>>
    /\ idx' = 0
    /\ quotes' = <<>>
    /\ responses' = <<>>
    /\ UNCHANGED <<crashed, survived, calcVars>>

RequestAll ==
    /\ pc \in {"idle", "done"}
    /\ ~crashed
    /\ route' = "all"
    /\ pc' = "await"
    /\ idx' = 1
    /\ fetches' = <<fetchWeather(cities[1])>>
    /\ quotes' = <<>>
    /\ responses' = <<>>
    /\ UNCHANGED <<crashed, survived, calcVars>>

\* The response of the weather service arrives
UpstreamResponds(k, body) ==
    /\ fetches[k].phase = "requested"
    /\ fetches' = [fetches EXCEPT ![k].phase = "receiving", ![k].body = body,
                                  ![k].wire = body]
    /\ UNCHANGED <<route, pc, idx, quotes, responses, crashed, survived, calcVars>>

\* res.on('data'): data += chunk
OnData(k) ==
    /\ fetches[k].phase = "receiving"
    /\ fetches[k].wire # ""
    /\ LET w == fetches[k].wire
           n == Min(ChunkSize, Len(w))
       IN  fetches' = [fetches EXCEPT ![k].data = @ \o SubSeq(w, 1, n),
                                      ![k].wire = SubSeq(w, n + 1, Len(w))]
    /\ UNCHANGED <<route, pc, idx, quotes, responses, crashed, survived, calcVars>>

\* res.on('end')
OnEnd(k) ==
    /\ fetches[k].phase = "receiving"
    /\ fetches[k].wire = ""
    /\ fetches' = [fetches EXCEPT ![k].phase = "ended",
                                  ![k].promise = EndCallback(@, fetches[k].data)]
    /\ UNCHANGED <<route, pc, idx, quotes, responses, crashed, survived, calcVars>>

\* .on('error', reject): the request fails before a response arrives
OnError(k, err) ==
    /\ fetches[k].phase = "requested"
    /\ fetches' = [fetches EXCEPT ![k].phase = "failed",
                                  ![k].promise = reject(@, err)]
    /\ UNCHANGED <<route, pc, idx, quotes, responses, crashed, survived, calcVars>>

CityResume ==
    /\ route = "city"
    /\ pc = "await"
    /\ fetches[1].promise.state # "pending"
    /\ LET run == CityHandler(fetches[1].promise)
       IN  /\ responses' = responses \o run.responses
           /\ crashed' = run.crashed
    /\ survived' = (survived \/ Unusable(fetches[1].promise))
    /\ pc' = "done"
    /\ UNCHANGED <<route, fetches, idx, quotes, calcVars>>

\* The loop of GET /api/rates goes on to the next city
AllContinue ==
    /\ route = "all"
    /\ pc = "await"
    /\ fetches[Len(fetches)].promise.state # "pending"
    /\ LET p == fetches[Len(fetches)].promise
           next == LoopNext(idx, ~(p.state = "resolved" /\ ~Unusable(p)))
       IN  /\ next <= Len(cities)
           /\ quotes' = AllIteration(quotes, p)
           /\ idx' = next
           /\ fetches' = Append(fetches, fetchWeather(cities[next]))
           /\ survived' = (survived \/ Unusable(p))
    /\ UNCHANGED <<route, pc, responses, crashed, calcVars>>

\* The loop is over: res.json({quotes, generatedAt})
AllFinish ==
    /\ route = "all"
    /\ pc = "await"
    /\ fetches[Len(fetches)].promise.state # "pending"
    /\ LET p == fetches[Len(fetches)].promise
           next == LoopNext(idx, ~(p.state = "resolved" /\ ~Unusable(p)))
       IN  /\ next > Len(cities)
           /\ quotes' = AllIteration(quotes, p)
           /\ idx' = next
           /\ responses' = Append(responses, [status |-> 200, body |-> [quotes |-> quotes']])
           /\ survived' = (survived \/ Unusable(p))
    /\ pc' = "done"
    /\ UNCHANGED <<route, fetches, crashed, calcVars>>

Next ==
    \/ \E city \in CityParams : RequestCity(city)
    \/ RequestAll
    \/ \E k \in 1..Len(fetches), body \in Bodies : UpstreamResponds(k, body)
    \/ \E k \in 1..Len(fetches) : OnData(k)
    \/ \E k \in 1..Len(fetches) : OnEnd(k)
    \/ \E k \in 1..Len(fetches), err \in TransportErrors : OnError(k, err)
    \/ CityResume
    \/ AllContinue
    \/ AllFinish

Spec == Init /\ [][Next]_vars

----------------------------------------------------------------------------
(* Calculator alone: calculateRates applied to each reading of a bounded set *)

Words ==
    {"sunny", "Clear", "cloud", "OVERCAST", "rain", "Storm", "cloudy, light rain",
     "ra", "in"}

RECURSIVE Texts(_)
Texts(n) ==
    IF n = 0 THEN {""}
    ELSE Texts(n - 1) \cup {t \o w : t \in Texts(n - 1), w \in Words}

Reading(temperature, conditions, humidity) ==
    Obj([city |-> Str("london"), temperature |-> temperature,
         conditions |-> Str(conditions), humidity |-> Num(humidity)])

Readings ==
    {Reading(t, c, h) : t \in {Num(n) : n \in MinTemp..MaxTemp} \cup {Undefined},
                        c \in Texts(MaxWords),
                        h \in MinHumidity..MaxHumidity}

InitCalc ==
    /\ weather \in Readings
    /\ result = Return(Undefined)
    /\ calcPc = "input"
    /\ InitHttp

Calculate ==
    /\ calcPc = "input"
    /\ result' = calculateRates(weather)
    /\ calcPc' = "done"
    /\ UNCHANGED <<weather, httpVars>>

NextCalc == Calculate

SpecCalc == InitCalc /\ [][NextCalc]_vars

----------------------------------------------------------------------------
(* Properties of the calculator (checked under SpecCalc) *)

Calculated == calcPc = "done" /\ ~result.threw

Electricity == result.value[1]
NaturalGas == result.value[2]
Water == result.value[3]
SolarBuyback == result.value[4]

\* The reading's temperature and humidity as numbers; an absent temperature
\* compares false with every threshold
HasTemp == Prop(weather, "temperature").t = "number"
TempOf == Prop(weather, "temperature").n
HumidityOf == Prop(weather, "humidity").n
ConditionsOf == Prop(weather, "conditions").s

UpperOf(c) ==
    IF \E k \in 1..Len(LowerCase) : LowerCase[k] = c
    THEN UpperCase[CHOOSE k \in 1..Len(LowerCase) : LowerCase[k] = c]
    ELSE c

\* text contains word, letter case ignored (word is lower-case)
Contains(text, word) ==
    \E k \in 0..(Len(text) - Len(word)) :
        \A j \in 1..Len(word) :
            SubSeq(text, k + j, k + j) \in {SubSeq(word, j, j), UpperOf(SubSeq(word, j, j))}

ElecTable ==
    IF HasTemp /\ TempOf > 85 THEN Dec(4, 2)
    ELSE IF HasTemp /\ TempOf < 40 THEN Dec(3, 2)
    ELSE IF HasTemp /\ 65 <= TempOf /\ TempOf <= 75 THEN -Dec(2, 2)
    ELSE 0

GasTable ==
    IF HasTemp /\ TempOf < 32 THEN Dec(45, 2)
    ELSE IF HasTemp /\ TempOf < 50 THEN Dec(25, 2)
    ELSE IF HasTemp /\ TempOf > 80 THEN -Dec(15, 2)
    ELSE 0

\* C1: for every temperature the Electricity and Natural Gas adjustments are
\* the first matching row of their tables; 85 gives Electricity 0 with reason
\* "Standard rate", 65 and 75 give -0.02.
C1_TemperatureRules ==
    Calculated =>
        /\ Electricity.weatherAdjustment = ElecTable
        /\ NaturalGas.weatherAdjustment = GasTable
        /\ (HasTemp /\ TempOf = 85) =>
               (Electricity.weatherAdjustment = 0 /\ Electricity.reason = "Standard rate")
        /\ (HasTemp /\ TempOf \in {65, 75}) => Electricity.weatherAdjustment = -Dec(2, 2)

C1_Witness ==
    /\ Calculated
    /\ HasTemp /\ TempOf = 85
    /\ Electricity.weatherAdjustment = 0
    /\ NaturalGas.weatherAdjustment = -Dec(15, 2)

C3_SolarRules ==
    Calculated =>
        SolarBuyback.weatherAdjustment =
            IF Contains(ConditionsOf, "sunny") \/ Contains(ConditionsOf, "clear")
            THEN Dec(3, 2)
            ELSE IF Contains(ConditionsOf, "cloud") \/ Contains(ConditionsOf, "overcast")
            THEN -Dec(2, 2)
            ELSE IF Contains(ConditionsOf, "rain") \/ Contains(ConditionsOf, "storm")
            THEN -Dec(4, 2)
            ELSE 0

C3_Witness ==
    /\ Calculated
    /\ ConditionsOf = "cloudy, light rain"
    /\ SolarBuyback.weatherAdjustment = -Dec(2, 2)

\* The Reason column of the rule tables, by the adjustment that identifies
\* the row; drought and sunny name the two rows whose text is at issue
ReasonOfRow(q, drought, peakSolar) ==
    CASE q.utility = "Electricity" ->
            (CASE q.weatherAdjustment = Dec(4, 2) -> "High cooling demand due to heat"
               [] q.weatherAdjustment = Dec(3, 2) -> "Increased heating demand"
               [] q.weatherAdjustment = -Dec(2, 2) -> "Low HVAC demand - mild weather"
               [] OTHER -> "Standard rate")
      [] q.utility = "Natural Gas" ->
            (CASE q.weatherAdjustment = Dec(45, 2) -> "Peak heating season - extreme cold"
               [] q.weatherAdjustment = Dec(25, 2) -> "Heating demand increased"
               [] q.weatherAdjustment = -Dec(15, 2) -> "Reduced heating demand"
               [] OTHER -> "Standard rate")
      [] q.utility = "Water" ->
            (CASE q.weatherAdjustment = Dec(2, 3) -> drought
               [] q.weatherAdjustment = -Dec(1, 3) -> "Reduced irrigation demand"
               [] OTHER -> "Standard rate")
      [] OTHER ->
            (CASE q.weatherAdjustment = Dec(3, 2) -> peakSolar
               [] q.weatherAdjustment = -Dec(2, 2) -> "Reduced solar output"
               [] q.weatherAdjustment = -Dec(4, 2) -> "Minimal solar production"
               [] OTHER -> "Standard buyback rate")

\* C4 as stated: the reason of every quote is the Reason text of the spec's
\* rule table, "Drought surcharge" and "Peak solar production" included.
C4_ReasonAsTabled ==
    Calculated =>
        \A k \in 1..4 :
            result.value[k].reason =
                ReasonOfRow(result.value[k], "Drought surcharge", "Peak solar production")

\* C4, amended: the reason of every quote is the text of the row that chose
\* its adjustment, where the drought row reads "Drought surcharge -
\* conservation pricing" and the sunny/clear row "Peak solar production -
\* premium buyback"; with no Solar rule matching it is "Standard buyback rate".
C4_ReasonOfSelectedRow ==
    Calculated =>
        \A k \in 1..4 :
            result.value[k].reason =
                ReasonOfRow(result.value[k], "Drought surcharge - conservation pricing",
                            "Peak solar production - premium buyback")

C4_Witness ==
    /\ Calculated
    /\ Water.weatherAdjustment = Dec(2, 3)
    /\ Water.reason = "Drought surcharge - conservation pricing"
    /\ SolarBuyback.weatherAdjustment = 0
    /\ SolarBuyback.reason = "Standard buyback rate"

\* x is a whole number of units of 10^-d
HasDecimals(x, d) == x % Pow10(Digits - d) = 0

\* C5: every quote's weatherAdjustment is one of its utility's constants,
\* its baseRate the BaseRateTable entry, and its adjustedRate the sum of the
\* two, which the rounding (3, 2, 4, 3 decimals) leaves unchanged.
C5_AdjustedRateExact ==
    Calculated =>
        /\ Len(result.value) = 4
        /\ Electricity.weatherAdjustment \in {Dec(4, 2), Dec(3, 2), -Dec(2, 2), 0}
        /\ NaturalGas.weatherAdjustment \in {Dec(45, 2), Dec(25, 2), -Dec(15, 2), 0}
        /\ Water.weatherAdjustment \in {Dec(2, 3), -Dec(1, 3), 0}
        /\ SolarBuyback.weatherAdjustment \in {Dec(3, 2), -Dec(2, 2), -Dec(4, 2), 0}
        /\ Electricity.baseRate = Dec(12, 2)
        /\ NaturalGas.baseRate = Dec(105, 2)
        /\ Water.baseRate = Dec(4, 3)
        /\ SolarBuyback.baseRate = Dec(8, 2)
        /\ HasDecimals(Electricity.adjustedRate, 3)
        /\ HasDecimals(NaturalGas.adjustedRate, 2)
        /\ HasDecimals(Water.adjustedRate, 4)
        /\ HasDecimals(SolarBuyback.adjustedRate, 3)
        /\ \A k \in 1..4 :
               result.value[k].adjustedRate =
                   result.value[k].baseRate + result.value[k].weatherAdjustment

C5_Witness ==
    /\ Calculated
    /\ NaturalGas.weatherAdjustment = -Dec(15, 2)
    /\ NaturalGas.adjustedRate = Dec(90, 2)
    /\ Water.weatherAdjustment = -Dec(1, 3)
    /\ Water.adjustedRate = Dec(3, 3)

----------------------------------------------------------------------------
(* Properties of the weather client and the endpoints (checked under Spec) *)

Calls == 1..Len(fetches)

Settled(k) == fetches[k].promise.state # "pending"

\* The body the weather service sent, as JSON (an unanswered call has the
\* empty body)
ParsedBody == [b \in Bodies \cup {""} |-> JSONparse(b)]
BodyOf(k) == ParsedBody[fetches[k].body]

HasErrorField(v) == v.t = "object" /\ "error" \in DOMAIN v.f

\* false, 0, "", null or no value at all
Falsy(v) ==
    \/ v.t \in {"undefined", "null"}
    \/ v.t = "boolean" /\ ~v.b
    \/ v.t = "number" /\ v.n = 0
    \/ v.t = "string" /\ v.s = ""

\* C6 as stated: a finished call has issued one request and is settled; it
\* resolved with the parsed body exactly when the body is valid JSON with no
\* error field, an error field of any value made it fail with that message,
\* a body that is not JSON made it fail with the invalid-response error, and
\* a transport failure with the transport error.
C6_AsClaimed ==
    \A k \in Calls :
      LET parsed == BodyOf(k)
          error == Prop(parsed.value, "error")
      IN
        /\ Len(fetches[k].sent) = 1
        /\ fetches[k].phase = "ended" =>
              /\ Settled(k)
              /\ fetches[k].promise.state = "resolved" <=>
                     (~parsed.threw /\ ~HasErrorField(parsed.value))
              /\ (~parsed.threw /\ HasErrorField(parsed.value)) =>
                     /\ fetches[k].promise.state = "rejected"
                     /\ fetches[k].promise.message = StringOf(error)
              /\ parsed.threw =>
                     /\ fetches[k].promise.state = "rejected"
                     /\ fetches[k].promise.message = "Invalid response from weather service"
        /\ fetches[k].phase = "failed" =>
              /\ fetches[k].promise.state = "rejected"
              /\ fetches[k].promise.message \in TransportErrors

\* C6, amended: a call issues one request, is pending until its 'end' or
\* 'error' callback runs and settled from then on; it resolves with the
\* parsed body exactly when the body is valid JSON other than null whose
\* error property is absent or falsy; a truthy error property makes it fail
\* with that value as message; a body that is not JSON, or is null, makes it
\* fail with the invalid-response error; a transport failure makes it fail
\* with the transport error.
C6_FetchOutcome ==
    \A k \in Calls :
      LET parsed == BodyOf(k)
          error == Prop(parsed.value, "error")
      IN
        /\ Len(fetches[k].sent) = 1
        /\ fetches[k].phase \in {"requested", "receiving"} <=> ~Settled(k)
        /\ fetches[k].phase = "ended" =>
              /\ fetches[k].data = fetches[k].body
              /\ fetches[k].promise.state = "resolved" <=>
                     /\ ~parsed.threw
                     /\ parsed.value.t # "null"
                     /\ Falsy(error)
              /\ fetches[k].promise.state = "resolved" =>
                     fetches[k].promise.value = parsed.value
              /\ (~parsed.threw /\ parsed.value.t # "null"
                    /\ ~Falsy(error)) =>
                     fetches[k].promise.message = StringOf(error)
              /\ (parsed.threw \/ parsed.value.t = "null") =>
                     fetches[k].promise.message = "Invalid response from weather service"
        /\ fetches[k].phase = "failed" =>
              /\ fetches[k].promise.state = "rejected"
              /\ fetches[k].promise.message \in TransportErrors

C6_Witness ==
    \E k \in Calls :
        /\ fetches[k].phase = "ended"
        /\ fetches[k].body = ReadingTokyo
        /\ HasErrorField(BodyOf(k).value)
        /\ fetches[k].promise.state = "resolved"

\* A reading calculateRates accepts: an object whose conditions is a string
WellFormed(v) == v.t = "object" /\ Prop(v, "conditions").t = "string"

\* C7: GET /api/rates/:city sends nothing before the fetch settles and one
\* response after it: 404 with the generic error text and the error's own
\* message, without rates, when the fetch failed; 200 with the reading's
\* city and weather and the four rates of that reading when it succeeded
\* with a well-formed reading.
C7_CityResponse ==
    route = "city" =>
        /\ pc = "await" => responses = <<>>
        /\ pc = "done" =>
              /\ Len(responses) = 1
              /\ fetches[1].promise.state = "rejected" =>
                     /\ responses[1].status = 404
                     /\ DOMAIN responses[1].body = {"error", "message"}
                     /\ responses[1].body.error = "Could not generate rate quote"
                     /\ responses[1].body.message = fetches[1].promise.message
                     /\ fetches[1].phase = "ended" =>
                            responses[1].body.message \in
                                {"Invalid response from weather service", "not found"}
                     /\ fetches[1].phase = "failed" =>
                            responses[1].body.message \in TransportErrors
              /\ (fetches[1].promise.state = "resolved"
                    /\ WellFormed(fetches[1].promise.value)) =>
                     /\ responses[1].status = 200
                     /\ responses[1].body.city = Prop(fetches[1].promise.value, "city")
                     /\ responses[1].body.weather =
                            [temperature |-> Prop(fetches[1].promise.value, "temperature"),
                             conditions |-> Prop(fetches[1].promise.value, "conditions"),
                             humidity |-> Prop(fetches[1].promise.value, "humidity")]
                     /\ Len(responses[1].body.rates) = 4
                     /\ responses[1].body.rates =
                            calculateRates(fetches[1].promise.value).value

C7_Witness ==
    /\ route = "city"
    /\ pc = "done"
    /\ fetches[1].body = "{\"error\":\"not found\"}"
    /\ Len(responses) = 1
    /\ responses[1].status = 404
    /\ responses[1].body.message = "not found"

\* The calls of the request whose fetch succeeded, and those whose reading
\* calculateRates then accepted
Succeeded == {k \in Calls : fetches[k].promise.state = "resolved"}
Quoted == {k \in Succeeded : WellFormed(fetches[k].promise.value)}

QuoteOf(v) ==
    [city |-> Prop(v, "city"),
     weather |-> [temperature |-> Prop(v, "temperature"),
                  conditions |-> Prop(v, "conditions")],
     rates |-> calculateRates(v).value]

\* The quotes of the calls 1..n that are in Quoted, in call order
RECURSIVE QuotesUpTo(_)
QuotesUpTo(n) ==
    IF n = 0 THEN <<>>
    ELSE IF n \in Quoted
    THEN Append(QuotesUpTo(n - 1), QuoteOf(fetches[n].promise.value))
    ELSE QuotesUpTo(n - 1)

AllAnswered == route = "all" /\ pc = "done"

\* C8 as stated: the response of GET /api/rates holds one quote for each
\* city whose fetch succeeded: 5 - k quotes when k fetches failed.
C8_AsClaimed ==
    AllAnswered =>
        /\ Len(responses) = 1
        /\ Len(responses[1].body.quotes) = Cardinality(Succeeded)
        /\ Len(responses[1].body.quotes) = 5 - Cardinality(Calls \ Succeeded)

\* C8, amended: the response of GET /api/rates is a normal response whose
\* quotes are, in list order, one quote for each city of the fixed list whose
\* fetch succeeded with a reading calculateRates accepts (a string
\* conditions), with no entry or other mark for the rest: 5 - k quotes when
\* k cities failed to fetch or gave an unusable reading, none when all did.
C8_QuotesOfUsableCities ==
    AllAnswered =>
        /\ Len(responses) = 1
        /\ responses[1].status = 200
        /\ DOMAIN responses[1].body = {"quotes"}
        /\ Len(fetches) = 5
        /\ \A k \in Calls : fetches[k].city = cities[k]
        /\ responses[1].body.quotes = QuotesUpTo(5)
        /\ Len(responses[1].body.quotes) = 5 - Cardinality(Calls \ Quoted)
        /\ \A j \in 1..Len(responses[1].body.quotes) :
               DOMAIN responses[1].body.quotes[j] = {"city", "weather", "rates"}

C8_Witness ==
    /\ AllAnswered
    /\ Cardinality(Calls \ Succeeded) = 2
    /\ Cardinality(Quoted) = 3
    /\ Len(responses[1].body.quotes) = 3

\* C9: in a GET /api/rates request every fetch but the latest has settled,
\* the k-th fetch is for the k-th city of the list and is requested once, and
\* the response is sent only when all five fetches have settled.
C9_SequentialFetches ==
    route = "all" =>
        /\ Len(fetches) <= Len(cities)
        /\ \A k \in Calls :
               /\ fetches[k].city = cities[k]
               /\ Len(fetches[k].sent) = 1
               /\ k < Len(fetches) => Settled(k)
        /\ Cardinality({k \in Calls : ~Settled(k)}) <= 1
        /\ pc = "await" => (idx = Len(fetches) /\ responses = <<>>)
        /\ responses # <<>> =>
               /\ pc = "done"
               /\ Len(fetches) = Len(cities)
               /\ \A k \in Calls : Settled(k)

C9_Witness ==
    /\ AllAnswered
    /\ Len(fetches) = 5
    /\ fetches[2].promise.state = "rejected"
    /\ fetches[3].promise.state = "resolved"
    /\ Len(responses) = 1

\* C10: a fetch that succeeds with a reading calculateRates cannot use never
\* ends the process: GET /api/rates/:city answers it with 404, the thrown
\* error's text as message and no rates; GET /api/rates leaves the city out
\* and still fetches the remaining cities; and the next request is accepted.
C10_UnusableReadingContained ==
    /\ ~crashed
    /\ (route = "city" /\ pc = "done" /\ Unusable(fetches[1].promise)) =>
           /\ Len(responses) = 1
           /\ responses[1].status = 404
           /\ DOMAIN responses[1].body = {"error", "message"}
           /\ responses[1].body.message = calculateRates(fetches[1].promise.value).message
    /\ AllAnswered =>
           /\ Len(fetches) = 5
           /\ Len(responses[1].body.quotes) =
                  Cardinality({k \in Succeeded : ~Unusable(fetches[k].promise)})
    /\ (route = "all" /\ pc = "await") =>
           \A k \in Calls : (k < Len(fetches) /\ Unusable(fetches[k].promise)) =>
                                fetches[k + 1].city = cities[k + 1]
    /\ (survived /\ pc = "done") => (ENABLED RequestAll /\ Len(responses) = 1)

C10_Witness ==
    /\ survived
    /\ route = "city"
    /\ pc = "done"
    /\ fetches[1].body = ReadingLondon
    /\ Len(responses) = 1
    /\ responses[1].status = 200

====
